---- MODULE Spec2Model ----
(***************************************************************************)
(* Gait control core of the bilateral exoskeleton controller               *)
(* (ESP32_Exoskeleton_Controller.ino): the system state machine, the       *)
(* table-driven gait sequencer, the servo actuation step, the WebSocket    *)
(* command handler and the telemetry message.                              *)
(*                                                                         *)
(* Numbers.  The firmware's floats are modelled as integers in hundredths  *)
(* (78.76 degrees is 7876, speed 1.0 is 100, load 35.0 % is 3500).  Every  *)
(* literal of the source has at most two decimals, so the scaling is       *)
(* exact; the places where the float matters (truncation to int, printing  *)
(* with one decimal) are modelled by what they compute.                    *)
(*                                                                         *)
(* Scheduling.  loop() calls updateGaitSimulation, updateServos, the       *)
(* periodic broadcast and the periodic diagnostics one after the other,    *)
(* each behind a millis() gate; the WebSocket handler runs from the        *)
(* network task.  Each handler is one atomic action; the elapsed time a    *)
(* gate compares is an input of the action.                                *)
(***************************************************************************)
EXTENDS Integers, Sequences, FiniteSets

VARIABLES
    currentState,       \* SystemState currentState
    lastErrorMessage,   \* String lastErrorMessage
    target,             \* currentData.<joint>.targetAngle, hundredths of a degree
    current,            \* currentData.<joint>.currentAngle, hundredths of a degree
    gaitPhase,          \* currentData.gaitPhase
    gaitProgress,       \* currentData.gaitProgress
    systemLoad,         \* currentData.systemLoad, hundredths of a percent
    errorCode,          \* currentData.errorCode
    errorMessage,       \* currentData.errorMessage
    gaitCycleIndex,     \* int gaitCycleIndex
    gaitSpeed,          \* float gaitSpeed, hundredths
    completedCycles,    \* int completedCycles
    lastProgress,       \* int lastProgress
    clients,            \* ws.count(): connected WebSocket clients
    sent,               \* messages handed to ws.textAll by the last step
    written,            \* angles handed to Servo::write by the last step
    lastOp,             \* the operation the last step ran
    driveFault,         \* whether the hardware failed under the last Servo::write
    pendingGait,        \* effective sequencer ticks since the last actuation tick
    nInputs,            \* events counted against MaxInputs so far
    nTicks,             \* effective sequencer ticks since start-up or the last stop
    cycles0,            \* completedCycles at start-up or at the last stop
    handler,            \* where the command handler stands inside a command
    sequencer           \* where loop() stands inside updateGaitSimulation

progVars == <<currentState, lastErrorMessage, target, current, gaitPhase,
              gaitProgress, systemLoad, errorCode, errorMessage,
              gaitCycleIndex, gaitSpeed, completedCycles, lastProgress>>

vars == <<currentState, lastErrorMessage, target, current, gaitPhase,
          gaitProgress, systemLoad, errorCode, errorMessage, gaitCycleIndex,
          gaitSpeed, completedCycles, lastProgress, clients, sent, written,
          lastOp, driveFault, pendingGait, nInputs, nTicks, cycles0,
          handler, sequencer>>

----------------------------------------------------------------------------
(* Bounds of the model *)

\* events per run other than ticks and periodic broadcasts: frames received,
\* connects and disconnects, hardware failures and fault reports, periodic
\* diagnostics
MaxInputs == 3
\* completed gait cycles after which the sequencer is no longer stepped
MaxCycles == 1
\* effective sequencer ticks between two actuation ticks: the servo gate
\* (20 ms) is shorter than the shortest sequencer interval (25 ms)
MaxLag == 1
\* WebSocket clients connected at once
MaxClients == 1

----------------------------------------------------------------------------
(* Configuration *)

SERVO_MIN_ANGLE == 0
SERVO_MAX_ANGLE == 18000
SERVO_HOME_POS == 9000
SERVO_UPDATE_INTERVAL == 20
GAIT_SAMPLES == 100

STOPPED == "STOPPED"
RUNNING == "RUNNING"
PAUSED == "PAUSED"
ERROR_STATE == "ERROR_STATE"
SystemState == {STOPPED, RUNNING, PAUSED, ERROR_STATE}

Joints == {"leftHip", "leftKnee", "rightHip", "rightKnee"}

hipLeft ==
  <<
    7876, 7771, 7672, 7579, 7493, 7415, 7343, 7279, 7224, 7177,
    7138, 7108, 7087, 7075, 7072, 7078, 7094, 7118, 7151, 7192,
    7243, 7301, 7367, 7442, 7523, 7611, 7706, 7807, 7914, 8025,
    8142, 8262, 8386, 8513, 8641, 8772, 8904, 9036, 9168, 9299,
    9429, 9557, 9682, 9804, 9922, 10036, 10145, 10249, 10346, 10438,
    10522, 10600, 10670, 10732, 10786, 10831, 10868, 10896, 10916, 10926,
    10927, 10919, 10902, 10877, 10842, 10799, 10747, 10687, 10619, 10543,
    10461, 10371, 10275, 10173, 10065, 9953, 9836, 9715, 9590, 9463,
    9334, 9203, 9071, 8939, 8807, 8676, 8546, 8419, 8294, 8173,
    8056, 7943, 7835, 7732, 7636, 7546, 7462, 7386, 7318, 7257 >>

kneeLeft ==
  <<
    10426, 10353, 10273, 10186, 10094, 9995, 9892, 9784, 9672, 9557,
    9439, 9319, 9197, 9074, 8950, 8827, 8705, 8584, 8466, 8350,
    8237, 8129, 8025, 7925, 7831, 7743, 7662, 7587, 7520, 7460,
    7408, 7364, 7328, 7301, 7282, 7272, 7271, 7279, 7295, 7320,
    7354, 7396, 7446, 7504, 7570, 7643, 7722, 7809, 7901, 7999,
    8102, 8210, 8321, 8437, 8554, 8675, 8797, 8919, 9043, 9166,
    9288, 9409, 9528, 9644, 9756, 9865, 9970, 10069, 10164, 10252,
    10334, 10409, 10477, 10537, 10590, 10634, 10670, 10698, 10717, 10728,
    10729, 10722, 10706, 10682, 10648, 10607, 10557, 10499, 10434, 10362,
    10282, 10196, 10104, 10007, 9904, 9796, 9685, 9570, 9452, 9332 >>

hipRight ==
  <<
    10522, 10600, 10670, 10732, 10786, 10831, 10868, 10896, 10916, 10926,
    10927, 10919, 10902, 10877, 10842, 10799, 10747, 10687, 10619, 10543,
    10461, 10371, 10275, 10173, 10065, 9953, 9836, 9715, 9590, 9463,
    9334, 9203, 9071, 8939, 8807, 8676, 8546, 8419, 8294, 8173,
    8056, 7943, 7835, 7732, 7636, 7546, 7462, 7386, 7318, 7257,
    7876, 7771, 7672, 7579, 7493, 7415, 7343, 7279, 7224, 7177,
    7138, 7108, 7087, 7075, 7072, 7078, 7094, 7118, 7151, 7192,
    7243, 7301, 7367, 7442, 7523, 7611, 7706, 7807, 7914, 8025,
    8142, 8262, 8386, 8513, 8641, 8772, 8904, 9036, 9168, 9299,
    9429, 9557, 9682, 9804, 9922, 10036, 10145, 10249, 10346, 10438 >>

kneeRight ==
  <<
    8102, 8210, 8321, 8437, 8554, 8675, 8797, 8919, 9043, 9166,
    9288, 9409, 9528, 9644, 9756, 9865, 9970, 10069, 10164, 10252,
    10334, 10409, 10477, 10537, 10590, 10634, 10670, 10698, 10717, 10728,
    10729, 10722, 10706, 10682, 10648, 10607, 10557, 10499, 10434, 10362,
    10282, 10196, 10104, 10007, 9904, 9796, 9685, 9570, 9452, 9332,
    10426, 10353, 10273, 10186, 10094, 9995, 9892, 9784, 9672, 9557,
    9439, 9319, 9197, 9074, 8950, 8827, 8705, 8584, 8466, 8350,
    8237, 8129, 8025, 7925, 7831, 7743, 7662, 7587, 7520, 7460,
    7408, 7364, 7328, 7301, 7282, 7272, 7271, 7279, 7295, 7320,
    7354, 7396, 7446, 7504, 7570, 7643, 7722, 7809, 7901, 7999 >>
\* the sample of joint j at table index i (C arrays are 0-based)
Sample(j, i) ==
    CASE j = "leftHip"   -> hipLeft[i + 1]
      [] j = "leftKnee"  -> kneeLeft[i + 1]
      [] j = "rightHip"  -> hipRight[i + 1]
      [] j = "rightKnee" -> kneeRight[i + 1]

----------------------------------------------------------------------------
(* Pure helpers *)

\* Arduino's constrain(amt, low, high)
constrain(amt, low, high) ==
    IF amt < low THEN low ELSE IF amt > high THEN high ELSE amt

\* hundredths whose float is just below the decimal literal, so that
\* printing with one decimal rounds them down (101.45f is 101.4499969...)
RoundsDown == {10145, 7835, 9995, 7295, 9685}

\* String(x, 1) of a non-negative float: the value in tenths.  dtostrf adds
\* 0.05 to the float and cuts after one decimal.
Fmt1(h) ==
    IF h % 10 = 5 /\ h \in RoundsDown THEN h \div 10 ELSE (h + 5) \div 10

\* the cast rounding to the nearest whole degree
ToInt_Nearest(h) == (h + 50) \div 100

\* (int)x of a non-negative float: whole degrees
ToInt(h) == h \div 100

\* the interval with the speed multiplied in instead of divided out
UpdateInterval_Times(speed) == constrain((50 * speed) \div 100, 20, 200)

\* int updateInterval = 50 / gaitSpeed; constrain(updateInterval, 20, 200)
UpdateInterval(speed) == constrain(5000 \div speed, 20, 200)

\* the phase with the division done before the multiplication
PhaseOf_DivideFirst(i) == IF (i \div 100) * 5 > 4 THEN 4 ELSE (i \div 100) * 5

\* (gaitCycleIndex * 5) / 100, capped at 4
PhaseOf(i) == IF (i * 5) \div 100 > 4 THEN 4 ELSE (i * 5) \div 100

\* the state string without the case for ERROR_STATE
StateStr_NoError(s) ==
    CASE s = RUNNING     -> "running"
      [] s = PAUSED      -> "paused"
      [] OTHER           -> "stopped"

\* the state string of a telemetry message
StateStr(s) ==
    CASE s = RUNNING     -> "running"
      [] s = PAUSED      -> "paused"
      [] s = ERROR_STATE -> "error"
      [] OTHER           -> "stopped"

\* the JSON text sendDataToClients builds, as a record
Telemetry ==
    [ state        |-> StateStr(currentState),
      angle        |-> [j \in Joints |-> Fmt1(current[j])],
      target       |-> [j \in Joints |-> Fmt1(target[j])],
      gaitPhase    |-> gaitPhase,
      gaitProgress |-> gaitProgress,
      speed        |-> Fmt1(gaitSpeed),
      systemLoad   |-> Fmt1(systemLoad),
      cycleCount   |-> completedCycles,
      errorCode    |-> errorCode,
      errorMessage |-> errorMessage,
      clientCount  |-> clients ]

----------------------------------------------------------------------------
(* Inputs *)

\* "value" fields of setAngle messages: below, inside and above the range
AngleInputs == {-2000, 4500, 25000}
\* "value" fields of setSpeed messages: below, inside and above the range
SpeedInputs == {10, 100, 300}
\* elapsed milliseconds the sequencer gate can see
GaitElapsed == {30, 60, 120}
\* elapsed milliseconds the servo gate can see
ServoElapsed == {10, 20}
\* texts of a fault report
ErrorMessages == {"Servo fault"}

\* A WebSocket frame as the handler sees it: whether it is one whole text
\* frame, whether it parses as JSON, and the fields of the document.
Msg(command, hasJoint, joint, hasValue, isNum, value) ==
    [ frameOk |-> TRUE, parseOk |-> TRUE, command |-> command,
      hasJoint |-> hasJoint, joint |-> joint,
      hasValue |-> hasValue, isNum |-> isNum, value |-> value ]

Plain(command) == Msg(command, FALSE, "", FALSE, FALSE, 0)

Messages ==
    { Plain(c) : c \in {"start", "stop", "pause", "getStatus",
                        "getDiagnostics", "dance", ""} }
    \cup { Msg("setSpeed", FALSE, "", TRUE, TRUE, v) : v \in SpeedInputs }
    \cup { Msg("setSpeed", FALSE, "", TRUE, FALSE, 0), Plain("setSpeed") }
    \cup { Msg("setAngle", TRUE, "leftHip", TRUE, TRUE, v) : v \in AngleInputs }
    \cup { Msg("setAngle", TRUE, "leftKnee", TRUE, TRUE, 25000),
           Msg("setAngle", TRUE, "rightHip", TRUE, TRUE, -2000),
           Msg("setAngle", TRUE, "rightKnee", TRUE, TRUE, 4500),
           Msg("setAngle", TRUE, "rightKnee", TRUE, FALSE, 0) }
    \cup { Msg("setAngle", TRUE, "tail", TRUE, TRUE, 4500),
           Msg("setAngle", FALSE, "", TRUE, TRUE, 4500),
           Msg("setAngle", TRUE, "leftHip", FALSE, FALSE, 0) }
    \cup { [Plain("start") EXCEPT !.parseOk = FALSE],
           [Plain("start") EXCEPT !.frameOk = FALSE] }

\* the command names the handler dispatches on
Commands == {"start", "stop", "pause", "setSpeed", "setAngle", "getStatus",
             "getDiagnostics"}

\* float x = doc["value"]: a value that is not a number converts to 0
AsFloat(m) == IF m.isNum THEN m.value ELSE 0

----------------------------------------------------------------------------
(* Initial state: the global initialisers and initializeServos() *)

\* the command handler is between two frames
Idle == [op |-> "idle", joint |-> "", angle |-> 0]

\* start-up without initializeServos(): the angles of the zero-initialised
\* SystemData
Init_NotHomed ==
    /\ currentState = STOPPED
    /\ lastErrorMessage = ""
    /\ target = [j \in Joints |-> 0]
    /\ current = [j \in Joints |-> 0]
    /\ gaitPhase = 0
    /\ gaitProgress = 0
    /\ systemLoad = 0
    /\ errorCode = 0
    /\ errorMessage = ""
    /\ gaitCycleIndex = 0
    /\ gaitSpeed = 100
    /\ completedCycles = 0
    /\ lastProgress = -1
    /\ clients = 0
    /\ sent = << >>
    /\ written = << >>
    /\ lastOp = "init"
    /\ driveFault = FALSE
    /\ pendingGait = 0
    /\ nInputs = 0
    /\ nTicks = 0
    /\ cycles0 = 0
    /\ handler = Idle
    /\ sequencer = "idle"

Init ==
    /\ currentState = STOPPED
    /\ lastErrorMessage = ""
    /\ target = [j \in Joints |-> SERVO_HOME_POS]
    /\ current = [j \in Joints |-> SERVO_HOME_POS]
    /\ gaitPhase = 0
    /\ gaitProgress = 0
    /\ systemLoad = 0
    /\ errorCode = 0
    /\ errorMessage = ""
    /\ gaitCycleIndex = 0
    /\ gaitSpeed = 100
    /\ completedCycles = 0
    /\ lastProgress = -1
    /\ clients = 0
    /\ sent = << >>
    /\ written = << >>
    /\ lastOp = "init"
    /\ driveFault = FALSE
    /\ pendingGait = 0
    /\ nInputs = 0
    /\ nTicks = 0
    /\ cycles0 = 0
    /\ handler = Idle
    /\ sequencer = "idle"

----------------------------------------------------------------------------
(* Servo control *)

\* returnToHomePosition() that forgets the current angles
returnToHomePosition_TargetsOnly ==
    /\ target' = [j \in Joints |-> SERVO_HOME_POS]
    /\ UNCHANGED current

\* returnToHomePosition()
returnToHomePosition ==
    /\ target' = [j \in Joints |-> SERVO_HOME_POS]
    /\ current' = [j \in Joints |-> SERVO_HOME_POS]

\* the actuation tick taking the trajectory sample instead of targetAngle
\* while the playback runs
updateServos_FromTable(elapsed, fault) ==
    /\ IF elapsed >= SERVO_UPDATE_INTERVAL
       THEN /\ current' = [j \in Joints |->
                   IF currentState = RUNNING /\ lastProgress >= 0
                   THEN Sample(j, lastProgress)
                   ELSE constrain(target[j], SERVO_MIN_ANGLE, SERVO_MAX_ANGLE)]
            /\ written' = <<[j \in Joints |-> ToInt(current'[j])]>>
            /\ driveFault' = fault
            /\ IF fault
               THEN nInputs < MaxInputs /\ nInputs' = nInputs + 1
               ELSE nInputs' = nInputs
            /\ pendingGait' = 0
            /\ lastOp' = "updateServos"
            /\ sent' = << >>
       ELSE /\ fault = FALSE
            /\ UNCHANGED <<current, pendingGait, written, driveFault, lastOp,
                           sent, nInputs>>
    /\ UNCHANGED <<currentState, lastErrorMessage, target, gaitPhase,
                   gaitProgress, systemLoad, errorCode, errorMessage,
                   gaitCycleIndex, gaitSpeed, completedCycles, lastProgress,
                   clients, nTicks, cycles0, handler, sequencer>>

\* the actuation tick driving the home posture while the playback does not
\* run
updateServos_HomeWhenIdle(elapsed, fault) ==
    /\ IF elapsed >= SERVO_UPDATE_INTERVAL
       THEN /\ current' = [j \in Joints |->
                   IF currentState # RUNNING
                   THEN SERVO_HOME_POS
                   ELSE constrain(target[j], SERVO_MIN_ANGLE, SERVO_MAX_ANGLE)]
            /\ written' = <<[j \in Joints |-> ToInt(current'[j])]>>
            /\ driveFault' = fault
            /\ IF fault
               THEN nInputs < MaxInputs /\ nInputs' = nInputs + 1
               ELSE nInputs' = nInputs
            /\ pendingGait' = 0
            /\ lastOp' = "updateServos"
            /\ sent' = << >>
       ELSE /\ fault = FALSE
            /\ UNCHANGED <<current, pendingGait, written, driveFault, lastOp,
                           sent, nInputs>>
    /\ UNCHANGED <<currentState, lastErrorMessage, target, gaitPhase,
                   gaitProgress, systemLoad, errorCode, errorMessage,
                   gaitCycleIndex, gaitSpeed, completedCycles, lastProgress,
                   clients, nTicks, cycles0, handler, sequencer>>

\* updateServos(): elapsed is currentTime - lastServoUpdate; fault is whether
\* the hardware failed under the write, which Servo::write does not return
updateServos(elapsed, fault) ==
    /\ IF elapsed >= SERVO_UPDATE_INTERVAL
       THEN /\ current' = [j \in Joints |->
                   constrain(target[j], SERVO_MIN_ANGLE, SERVO_MAX_ANGLE)]
            /\ written' = <<[j \in Joints |-> ToInt(current'[j])]>>
            /\ driveFault' = fault
            /\ IF fault
               THEN nInputs < MaxInputs /\ nInputs' = nInputs + 1
               ELSE nInputs' = nInputs
            /\ pendingGait' = 0
            /\ lastOp' = "updateServos"
            /\ sent' = << >>
       ELSE /\ fault = FALSE
            /\ UNCHANGED <<current, pendingGait, written, driveFault, lastOp,
                           sent, nInputs>>
    /\ UNCHANGED <<currentState, lastErrorMessage, target, gaitPhase,
                   gaitProgress, systemLoad, errorCode, errorMessage,
                   gaitCycleIndex, gaitSpeed, completedCycles, lastProgress,
                   clients, nTicks, cycles0, handler, sequencer>>

\* handleServoError(errorMessage): the fault report.  No statement of the
\* file calls it; it is the entry point a fault is reported through.
handleServoError(msg) ==
    /\ nInputs < MaxInputs
    /\ nInputs' = nInputs + 1
    /\ lastErrorMessage' = msg
    /\ currentState' = ERROR_STATE
    /\ errorCode' = 1
    /\ errorMessage' = msg
    /\ lastOp' = "handleServoError"
    /\ sent' = << >>
    /\ written' = << >>
    /\ driveFault' = FALSE
    /\ UNCHANGED <<target, current, gaitPhase, gaitProgress, systemLoad,
                   gaitCycleIndex, gaitSpeed, completedCycles, lastProgress,
                   clients, pendingGait, nTicks, cycles0, handler, sequencer>>

----------------------------------------------------------------------------
(* Gait sequencer *)

\* the sequencer without the check for RUNNING
updateGaitSimulation_NoModeCheck(elapsed) ==
    /\ IF elapsed >= UpdateInterval(gaitSpeed)
       THEN /\ pendingGait < MaxLag
            /\ completedCycles < MaxCycles
            /\ gaitProgress' = gaitCycleIndex
            /\ completedCycles' =
                   IF lastProgress > 95 /\ gaitCycleIndex < 5
                   THEN completedCycles + 1 ELSE completedCycles
            /\ lastProgress' = gaitCycleIndex
            /\ target' = [j \in Joints |-> Sample(j, gaitCycleIndex)]
            /\ gaitPhase' = PhaseOf(gaitCycleIndex)
            /\ gaitCycleIndex' =
                   IF gaitCycleIndex + 1 >= GAIT_SAMPLES
                   THEN 0 ELSE gaitCycleIndex + 1
            /\ pendingGait' = pendingGait + 1
            /\ nTicks' = nTicks + 1
            /\ lastOp' = "updateGaitSimulation"
            /\ sent' = << >>
            /\ written' = << >>
            /\ driveFault' = FALSE
       ELSE UNCHANGED <<gaitProgress, completedCycles, lastProgress, target,
                        gaitPhase, gaitCycleIndex, pendingGait, lastOp, sent,
                        written, driveFault, nTicks>>
    /\ UNCHANGED <<currentState, lastErrorMessage, current, systemLoad,
                   errorCode, errorMessage, gaitSpeed, clients, nInputs,
                   cycles0, handler, sequencer>>

\* the sequencer counting a cycle on the tick that wraps the index
updateGaitSimulation_CountAtWrap(elapsed) ==
    /\ IF currentState # RUNNING
       THEN /\ lastOp' = "updateGaitSimulationIdle"
            /\ UNCHANGED <<gaitProgress, completedCycles, lastProgress,
                           target, gaitPhase, gaitCycleIndex, pendingGait,
                           nTicks>>
            /\ sent' = << >>
            /\ written' = << >>
            /\ driveFault' = FALSE
       ELSE IF elapsed >= UpdateInterval(gaitSpeed)
       THEN /\ pendingGait < MaxLag
            /\ completedCycles < MaxCycles
            /\ gaitProgress' = gaitCycleIndex
            /\ completedCycles' =
                   IF gaitCycleIndex + 1 >= GAIT_SAMPLES
                   THEN completedCycles + 1 ELSE completedCycles
            /\ lastProgress' = gaitCycleIndex
            /\ target' = [j \in Joints |-> Sample(j, gaitCycleIndex)]
            /\ gaitPhase' = PhaseOf(gaitCycleIndex)
            /\ gaitCycleIndex' =
                   IF gaitCycleIndex + 1 >= GAIT_SAMPLES
                   THEN 0 ELSE gaitCycleIndex + 1
            /\ pendingGait' = pendingGait + 1
            /\ nTicks' = nTicks + 1
            /\ lastOp' = "updateGaitSimulation"
            /\ sent' = << >>
            /\ written' = << >>
            /\ driveFault' = FALSE
       ELSE UNCHANGED <<gaitProgress, completedCycles, lastProgress, target,
                        gaitPhase, gaitCycleIndex, pendingGait, lastOp, sent,
                        written, driveFault, nTicks>>
    /\ UNCHANGED <<currentState, lastErrorMessage, current, systemLoad,
                   errorCode, errorMessage, gaitSpeed, clients, nInputs,
                   cycles0, handler, sequencer>>

\* the sequencer publishing the index it has advanced to
updateGaitSimulation_ProgressAfterStep(elapsed) ==
    /\ IF currentState # RUNNING
       THEN /\ lastOp' = "updateGaitSimulationIdle"
            /\ UNCHANGED <<gaitProgress, completedCycles, lastProgress,
                           target, gaitPhase, gaitCycleIndex, pendingGait,
                           nTicks>>
            /\ sent' = << >>
            /\ written' = << >>
            /\ driveFault' = FALSE
       ELSE IF elapsed >= UpdateInterval(gaitSpeed)
       THEN /\ pendingGait < MaxLag
            /\ completedCycles < MaxCycles
            /\ completedCycles' =
                   IF lastProgress > 95 /\ gaitCycleIndex < 5
                   THEN completedCycles + 1 ELSE completedCycles
            /\ lastProgress' = gaitCycleIndex
            /\ target' = [j \in Joints |-> Sample(j, gaitCycleIndex)]
            /\ gaitPhase' = PhaseOf(gaitCycleIndex)
            /\ gaitCycleIndex' =
                   IF gaitCycleIndex + 1 >= GAIT_SAMPLES
                   THEN 0 ELSE gaitCycleIndex + 1
            /\ gaitProgress' = gaitCycleIndex'
            /\ pendingGait' = pendingGait + 1
            /\ nTicks' = nTicks + 1
            /\ lastOp' = "updateGaitSimulation"
            /\ sent' = << >>
            /\ written' = << >>
            /\ driveFault' = FALSE
       ELSE UNCHANGED <<gaitProgress, completedCycles, lastProgress, target,
                        gaitPhase, gaitCycleIndex, pendingGait, lastOp, sent,
                        written, driveFault, nTicks>>
    /\ UNCHANGED <<currentState, lastErrorMessage, current, systemLoad,
                   errorCode, errorMessage, gaitSpeed, clients, nInputs,
                   cycles0, handler, sequencer>>

\* the sequencer writing the sample into currentAngle as well
updateGaitSimulation_WritesCurrent(elapsed) ==
    /\ IF currentState # RUNNING
       THEN /\ lastOp' = "updateGaitSimulationIdle"
            /\ UNCHANGED <<gaitProgress, completedCycles, lastProgress,
                           target, gaitPhase, gaitCycleIndex, pendingGait,
                           nTicks, current>>
            /\ sent' = << >>
            /\ written' = << >>
            /\ driveFault' = FALSE
       ELSE IF elapsed >= UpdateInterval(gaitSpeed)
       THEN /\ pendingGait < MaxLag
            /\ completedCycles < MaxCycles
            /\ gaitProgress' = gaitCycleIndex
            /\ completedCycles' =
                   IF lastProgress > 95 /\ gaitCycleIndex < 5
                   THEN completedCycles + 1 ELSE completedCycles
            /\ lastProgress' = gaitCycleIndex
            /\ target' = [j \in Joints |-> Sample(j, gaitCycleIndex)]
            /\ current' = target'
            /\ gaitPhase' = PhaseOf(gaitCycleIndex)
            /\ gaitCycleIndex' =
                   IF gaitCycleIndex + 1 >= GAIT_SAMPLES
                   THEN 0 ELSE gaitCycleIndex + 1
            /\ pendingGait' = pendingGait + 1
            /\ nTicks' = nTicks + 1
            /\ lastOp' = "updateGaitSimulation"
            /\ sent' = << >>
            /\ written' = << >>
            /\ driveFault' = FALSE
       ELSE UNCHANGED <<gaitProgress, completedCycles, lastProgress, target,
                        gaitPhase, gaitCycleIndex, pendingGait, lastOp, sent,
                        written, driveFault, nTicks, current>>
    /\ UNCHANGED <<currentState, lastErrorMessage, systemLoad,
                   errorCode, errorMessage, gaitSpeed, clients, nInputs,
                   cycles0, handler, sequencer>>

\* the sequencer without the wrap of the index at GAIT_SAMPLES
updateGaitSimulation_NoWrap(elapsed) ==
    /\ IF currentState # RUNNING
       THEN /\ lastOp' = "updateGaitSimulationIdle"
            /\ UNCHANGED <<gaitProgress, completedCycles, lastProgress,
                           target, gaitPhase, gaitCycleIndex, pendingGait,
                           nTicks>>
            /\ sent' = << >>
            /\ written' = << >>
            /\ driveFault' = FALSE
       ELSE IF elapsed >= UpdateInterval(gaitSpeed)
       THEN /\ pendingGait < MaxLag
            /\ completedCycles < MaxCycles
            /\ gaitProgress' = gaitCycleIndex
            /\ completedCycles' =
                   IF lastProgress > 95 /\ gaitCycleIndex < 5
                   THEN completedCycles + 1 ELSE completedCycles
            /\ lastProgress' = gaitCycleIndex
            /\ target' = [j \in Joints |-> Sample(j, gaitCycleIndex)]
            /\ gaitPhase' = PhaseOf(gaitCycleIndex)
            /\ gaitCycleIndex' = gaitCycleIndex + 1
            /\ pendingGait' = pendingGait + 1
            /\ nTicks' = nTicks + 1
            /\ lastOp' = "updateGaitSimulation"
            /\ sent' = << >>
            /\ written' = << >>
            /\ driveFault' = FALSE
       ELSE UNCHANGED <<gaitProgress, completedCycles, lastProgress, target,
                        gaitPhase, gaitCycleIndex, pendingGait, lastOp, sent,
                        written, driveFault, nTicks>>
    /\ UNCHANGED <<currentState, lastErrorMessage, current, systemLoad,
                   errorCode, errorMessage, gaitSpeed, clients, nInputs,
                   cycles0, handler, sequencer>>

\* the sequencer with an edge detector that fires on either half of the test
updateGaitSimulation_LooseDetector(elapsed) ==
    /\ IF currentState # RUNNING
       THEN /\ lastOp' = "updateGaitSimulationIdle"
            /\ UNCHANGED <<gaitProgress, completedCycles, lastProgress,
                           target, gaitPhase, gaitCycleIndex, pendingGait,
                           nTicks>>
            /\ sent' = << >>
            /\ written' = << >>
            /\ driveFault' = FALSE
       ELSE IF elapsed >= UpdateInterval(gaitSpeed)
       THEN /\ pendingGait < MaxLag
            /\ completedCycles < MaxCycles
            /\ gaitProgress' = gaitCycleIndex
            /\ completedCycles' =
                   IF lastProgress > 95 \/ gaitCycleIndex < 5
                   THEN completedCycles + 1 ELSE completedCycles
            /\ lastProgress' = gaitCycleIndex
            /\ target' = [j \in Joints |-> Sample(j, gaitCycleIndex)]
            /\ gaitPhase' = PhaseOf(gaitCycleIndex)
            /\ gaitCycleIndex' =
                   IF gaitCycleIndex + 1 >= GAIT_SAMPLES
                   THEN 0 ELSE gaitCycleIndex + 1
            /\ pendingGait' = pendingGait + 1
            /\ nTicks' = nTicks + 1
            /\ lastOp' = "updateGaitSimulation"
            /\ sent' = << >>
            /\ written' = << >>
            /\ driveFault' = FALSE
       ELSE UNCHANGED <<gaitProgress, completedCycles, lastProgress, target,
                        gaitPhase, gaitCycleIndex, pendingGait, lastOp, sent,
                        written, driveFault, nTicks>>
    /\ UNCHANGED <<currentState, lastErrorMessage, current, systemLoad,
                   errorCode, errorMessage, gaitSpeed, clients, nInputs,
                   cycles0, handler, sequencer>>

\* updateGaitSimulation(): elapsed is currentTime - lastGaitUpdate
\* the sequencer that stops the playback at the end of the table
updateGaitSimulation_PlaysOnce(elapsed) ==
    /\ IF currentState # RUNNING
       THEN /\ lastOp' = "updateGaitSimulationIdle"
            /\ UNCHANGED currentState
            /\ UNCHANGED <<gaitProgress, completedCycles, lastProgress,
                           target, gaitPhase, gaitCycleIndex, pendingGait,
                           nTicks>>
            /\ sent' = << >>
            /\ written' = << >>
            /\ driveFault' = FALSE
       ELSE IF elapsed >= UpdateInterval(gaitSpeed)
       THEN /\ pendingGait < MaxLag
            /\ completedCycles < MaxCycles
            /\ gaitProgress' = gaitCycleIndex
            /\ completedCycles' =
                   IF lastProgress > 95 /\ gaitCycleIndex < 5
                   THEN completedCycles + 1 ELSE completedCycles
            /\ lastProgress' = gaitCycleIndex
            /\ target' = [j \in Joints |-> Sample(j, gaitCycleIndex)]
            /\ gaitPhase' = PhaseOf(gaitCycleIndex)
            /\ gaitCycleIndex' =
                   IF gaitCycleIndex + 1 >= GAIT_SAMPLES
                   THEN 0 ELSE gaitCycleIndex + 1
            /\ currentState' = IF gaitCycleIndex + 1 >= GAIT_SAMPLES
                               THEN STOPPED ELSE currentState
            /\ pendingGait' = pendingGait + 1
            /\ nTicks' = nTicks + 1
            /\ lastOp' = "updateGaitSimulation"
            /\ sent' = << >>
            /\ written' = << >>
            /\ driveFault' = FALSE
       ELSE UNCHANGED <<gaitProgress, completedCycles, lastProgress, target,
                        gaitPhase, gaitCycleIndex, pendingGait, lastOp, sent,
                        written, driveFault, nTicks, currentState>>
    /\ UNCHANGED <<lastErrorMessage, current, systemLoad,
                   errorCode, errorMessage, gaitSpeed, clients, nInputs,
                   cycles0, handler, sequencer>>

updateGaitSimulation(elapsed) ==
    /\ IF currentState # RUNNING
       THEN /\ lastOp' = "updateGaitSimulationIdle"
            /\ UNCHANGED <<gaitProgress, completedCycles, lastProgress,
                           target, gaitPhase, gaitCycleIndex, pendingGait,
                           nTicks>>
            /\ sent' = << >>
            /\ written' = << >>
            /\ driveFault' = FALSE
       ELSE IF elapsed >= UpdateInterval(gaitSpeed)
       THEN /\ pendingGait < MaxLag
            /\ completedCycles < MaxCycles
            /\ gaitProgress' = gaitCycleIndex
            /\ completedCycles' =
                   IF lastProgress > 95 /\ gaitCycleIndex < 5
                   THEN completedCycles + 1 ELSE completedCycles
            /\ lastProgress' = gaitCycleIndex
            /\ target' = [j \in Joints |-> Sample(j, gaitCycleIndex)]
            /\ gaitPhase' = PhaseOf(gaitCycleIndex)
            /\ gaitCycleIndex' =
                   IF gaitCycleIndex + 1 >= GAIT_SAMPLES
                   THEN 0 ELSE gaitCycleIndex + 1
            /\ pendingGait' = pendingGait + 1
            /\ nTicks' = nTicks + 1
            /\ lastOp' = "updateGaitSimulation"
            /\ sent' = << >>
            /\ written' = << >>
            /\ driveFault' = FALSE
       ELSE UNCHANGED <<gaitProgress, completedCycles, lastProgress, target,
                        gaitPhase, gaitCycleIndex, pendingGait, lastOp, sent,
                        written, driveFault, nTicks>>
    /\ UNCHANGED <<currentState, lastErrorMessage, current, systemLoad,
                   errorCode, errorMessage, gaitSpeed, clients, nInputs,
                   cycles0, handler, sequencer>>

----------------------------------------------------------------------------
(* Diagnostics *)

\* the load estimate updateDiagnostics() computes
LoadEstimate ==
    constrain(gaitSpeed * 25 + (IF currentState = RUNNING THEN 3000 ELSE 1000),
              0, 10000)

\* the periodic updateDiagnostics() of loop()
updateDiagnostics ==
    /\ nInputs < MaxInputs
    /\ nInputs' = nInputs + 1
    /\ systemLoad' = LoadEstimate
    /\ lastOp' = "updateDiagnostics"
    /\ sent' = << >>
    /\ written' = << >>
    /\ driveFault' = FALSE
    /\ UNCHANGED <<currentState, lastErrorMessage, target, current, gaitPhase,
                   gaitProgress, errorCode, errorMessage, gaitCycleIndex,
                   gaitSpeed, completedCycles, lastProgress, clients,
                   pendingGait, nTicks, cycles0, handler, sequencer>>

----------------------------------------------------------------------------
(* Telemetry *)

\* the periodic sendDataToClients() of loop()
sendDataToClients ==
    /\ sent' = <<Telemetry>>
    /\ lastOp' = "sendDataToClients"
    /\ written' = << >>
    /\ driveFault' = FALSE
    /\ UNCHANGED <<progVars, clients, pendingGait, nInputs, nTicks, cycles0,
                   handler, sequencer>>

----------------------------------------------------------------------------
(* WebSocket command handler: the branches of handleWebSocketMessage *)

\* start without the check for ERROR_STATE
CmdStart_Unguarded ==
    /\ currentState' = RUNNING
    /\ UNCHANGED <<lastErrorMessage, target, current, gaitPhase, gaitProgress,
                   systemLoad, errorCode, errorMessage, gaitCycleIndex,
                   gaitSpeed, completedCycles, lastProgress>>

\* start that also rewinds the cursor
CmdStart_Restart ==
    /\ currentState' = IF currentState # ERROR_STATE THEN RUNNING
                       ELSE currentState
    /\ gaitCycleIndex' = IF currentState # ERROR_STATE THEN 0
                         ELSE gaitCycleIndex
    /\ lastProgress' = IF currentState # ERROR_STATE THEN -1 ELSE lastProgress
    /\ UNCHANGED <<lastErrorMessage, target, current, gaitPhase, gaitProgress,
                   systemLoad, errorCode, errorMessage, gaitSpeed,
                   completedCycles>>

CmdStart ==
    /\ currentState' = IF currentState # ERROR_STATE THEN RUNNING
                       ELSE currentState
    /\ UNCHANGED <<lastErrorMessage, target, current, gaitPhase, gaitProgress,
                   systemLoad, errorCode, errorMessage, gaitCycleIndex,
                   gaitSpeed, completedCycles, lastProgress>>

\* stop that resets the published progress but not the published phase
CmdStop_ResetsProgress ==
    /\ currentState' = STOPPED
    /\ gaitCycleIndex' = 0
    /\ lastProgress' = -1
    /\ gaitProgress' = 0
    /\ returnToHomePosition
    /\ UNCHANGED <<lastErrorMessage, gaitPhase, systemLoad, errorCode,
                   errorMessage, gaitSpeed, completedCycles>>

\* stop that also clears the cycle count
CmdStop_ResetsCount ==
    /\ currentState' = STOPPED
    /\ gaitCycleIndex' = 0
    /\ lastProgress' = -1
    /\ completedCycles' = 0
    /\ returnToHomePosition
    /\ UNCHANGED <<lastErrorMessage, gaitPhase, gaitProgress, systemLoad,
                   errorCode, errorMessage, gaitSpeed>>

CmdStop ==
    /\ currentState' = STOPPED
    /\ gaitCycleIndex' = 0
    /\ lastProgress' = -1
    /\ returnToHomePosition
    /\ UNCHANGED <<lastErrorMessage, gaitPhase, gaitProgress, systemLoad,
                   errorCode, errorMessage, gaitSpeed, completedCycles>>

\* pause that assigns the wrong enumerator
CmdPause_WrongState ==
    /\ currentState' = IF currentState = RUNNING THEN ERROR_STATE
                       ELSE currentState
    /\ UNCHANGED <<lastErrorMessage, target, current, gaitPhase, gaitProgress,
                   systemLoad, errorCode, errorMessage, gaitCycleIndex,
                   gaitSpeed, completedCycles, lastProgress>>

\* pause without the check for RUNNING
CmdPause_Always ==
    /\ currentState' = PAUSED
    /\ UNCHANGED <<lastErrorMessage, target, current, gaitPhase, gaitProgress,
                   systemLoad, errorCode, errorMessage, gaitCycleIndex,
                   gaitSpeed, completedCycles, lastProgress>>

\* pause that rewinds the cursor, so that start resumes at index 0
CmdPause_Rewinds ==
    /\ currentState' = IF currentState = RUNNING THEN PAUSED ELSE currentState
    /\ gaitCycleIndex' = IF currentState = RUNNING THEN 0 ELSE gaitCycleIndex
    /\ lastProgress' = IF currentState = RUNNING THEN -1 ELSE lastProgress
    /\ UNCHANGED <<lastErrorMessage, target, current, gaitPhase, gaitProgress,
                   systemLoad, errorCode, errorMessage, gaitSpeed,
                   completedCycles>>

CmdPause ==
    /\ currentState' = IF currentState = RUNNING THEN PAUSED ELSE currentState
    /\ UNCHANGED <<lastErrorMessage, target, current, gaitPhase, gaitProgress,
                   systemLoad, errorCode, errorMessage, gaitCycleIndex,
                   gaitSpeed, completedCycles, lastProgress>>

\* setSpeed without the constrain
CmdSetSpeed_NoClamp(m) ==
    /\ gaitSpeed' = IF m.hasValue THEN AsFloat(m) ELSE gaitSpeed
    /\ UNCHANGED <<currentState, lastErrorMessage, target, current, gaitPhase,
                   gaitProgress, systemLoad, errorCode, errorMessage,
                   gaitCycleIndex, completedCycles, lastProgress>>

\* setSpeed without the containsKey check: a missing value reads as 0
CmdSetSpeed_NoKeyCheck(m) ==
    /\ gaitSpeed' = constrain(AsFloat(m), 50, 200)
    /\ UNCHANGED <<currentState, lastErrorMessage, target, current, gaitPhase,
                   gaitProgress, systemLoad, errorCode, errorMessage,
                   gaitCycleIndex, completedCycles, lastProgress>>

CmdSetSpeed(m) ==
    /\ gaitSpeed' = IF m.hasValue THEN constrain(AsFloat(m), 50, 200)
                    ELSE gaitSpeed
    /\ UNCHANGED <<currentState, lastErrorMessage, target, current, gaitPhase,
                   gaitProgress, systemLoad, errorCode, errorMessage,
                   gaitCycleIndex, completedCycles, lastProgress>>

\* setAngle without the constrain
CmdSetAngle_NoClamp(m) ==
    /\ IF m.hasJoint /\ m.hasValue /\ m.joint \in Joints
       THEN /\ target' = [target EXCEPT ![m.joint] = AsFloat(m)]
            /\ current' = [current EXCEPT ![m.joint] = AsFloat(m)]
       ELSE UNCHANGED <<target, current>>
    /\ UNCHANGED <<currentState, lastErrorMessage, gaitPhase, gaitProgress,
                   systemLoad, errorCode, errorMessage, gaitCycleIndex,
                   gaitSpeed, completedCycles, lastProgress>>

\* setAngle that writes the target only and leaves the copy to the next tick
CmdSetAngle_TargetOnly(m) ==
    /\ IF m.hasJoint /\ m.hasValue /\ m.joint \in Joints
       THEN LET angle == constrain(AsFloat(m), SERVO_MIN_ANGLE, SERVO_MAX_ANGLE)
            IN  /\ target' = [target EXCEPT ![m.joint] = angle]
                /\ UNCHANGED current
       ELSE UNCHANGED <<target, current>>
    /\ UNCHANGED <<currentState, lastErrorMessage, gaitPhase, gaitProgress,
                   systemLoad, errorCode, errorMessage, gaitCycleIndex,
                   gaitSpeed, completedCycles, lastProgress>>

CmdSetAngle(m) ==
    /\ IF m.hasJoint /\ m.hasValue /\ m.joint \in Joints
       THEN LET angle == constrain(AsFloat(m), SERVO_MIN_ANGLE, SERVO_MAX_ANGLE)
            IN  /\ target' = [target EXCEPT ![m.joint] = angle]
                /\ current' = [current EXCEPT ![m.joint] = angle]
       ELSE UNCHANGED <<target, current>>
    /\ UNCHANGED <<currentState, lastErrorMessage, gaitPhase, gaitProgress,
                   systemLoad, errorCode, errorMessage, gaitCycleIndex,
                   gaitSpeed, completedCycles, lastProgress>>

\* getStatus that also clears the recorded fault information
CmdGetStatus_ClearsFault ==
    /\ systemLoad' = LoadEstimate
    /\ errorCode' = 0
    /\ errorMessage' = ""
    /\ UNCHANGED <<currentState, lastErrorMessage, target, current, gaitPhase,
                   gaitProgress, gaitCycleIndex, gaitSpeed, completedCycles,
                   lastProgress>>

CmdGetStatus ==
    /\ systemLoad' = LoadEstimate
    /\ UNCHANGED <<currentState, lastErrorMessage, target, current, gaitPhase,
                   gaitProgress, errorCode, errorMessage, gaitCycleIndex,
                   gaitSpeed, completedCycles, lastProgress>>

\* handleWebSocketMessage(arg, data, len) on the frame m
handleWebSocketMessage(m) ==
    /\ nInputs < MaxInputs
    /\ nInputs' = nInputs + 1
    /\ written' = << >>
    /\ driveFault' = FALSE
    /\ UNCHANGED <<clients, pendingGait, handler, sequencer>>
    /\ IF m.frameOk /\ m.parseOk /\ m.command = "stop"
       THEN nTicks' = 0 /\ cycles0' = completedCycles
       ELSE UNCHANGED <<nTicks, cycles0>>
    /\ IF ~m.frameOk \/ ~m.parseOk
       THEN /\ UNCHANGED progVars
            /\ lastOp' = "dropped"
            /\ sent' = << >>
       ELSE /\ CASE m.command = "start"    -> CmdStart
              [] m.command = "stop"     -> CmdStop
              [] m.command = "pause"    -> CmdPause
              [] m.command = "setSpeed" -> CmdSetSpeed(m)
              [] m.command = "setAngle" -> CmdSetAngle(m)
              [] m.command \in {"getStatus", "getDiagnostics"} -> CmdGetStatus
              [] OTHER -> UNCHANGED progVars
            /\ lastOp' = IF m.command \in Commands THEN m.command ELSE "unknown"
            /\ sent' = <<Telemetry'>>

----------------------------------------------------------------------------
(* WebSocket events other than data *)

\* the connect event without its snapshot
onConnect_NoSnapshot ==
    /\ nInputs < MaxInputs
    /\ clients < MaxClients
    /\ nInputs' = nInputs + 1
    /\ clients' = clients + 1
    /\ UNCHANGED <<progVars, pendingGait, nTicks, cycles0, handler, sequencer>>
    /\ lastOp' = "connect"
    /\ sent' = << >>
    /\ written' = << >>
    /\ driveFault' = FALSE

\* onWebSocketEvent, WS_EVT_CONNECT
onConnect ==
    /\ nInputs < MaxInputs
    /\ clients < MaxClients
    /\ nInputs' = nInputs + 1
    /\ clients' = clients + 1
    /\ UNCHANGED <<progVars, pendingGait, nTicks, cycles0, handler, sequencer>>
    /\ lastOp' = "connect"
    /\ sent' = <<Telemetry'>>
    /\ written' = << >>
    /\ driveFault' = FALSE

\* onWebSocketEvent, WS_EVT_DISCONNECT
onDisconnect ==
    /\ nInputs < MaxInputs
    /\ clients > 0
    /\ nInputs' = nInputs + 1
    /\ clients' = clients - 1
    /\ lastOp' = "disconnect"
    /\ sent' = << >>
    /\ written' = << >>
    /\ driveFault' = FALSE
    /\ UNCHANGED <<progVars, pendingGait, nTicks, cycles0, handler, sequencer>>

----------------------------------------------------------------------------
(* The system *)

Next ==
    \/ \E e \in GaitElapsed : updateGaitSimulation(e)
    \/ \E e \in ServoElapsed, f \in BOOLEAN : updateServos(e, f)
    \/ sendDataToClients
    \/ updateDiagnostics
    \/ \E m \in Messages : handleWebSocketMessage(m)
    \/ onConnect
    \/ onDisconnect
    \/ \E t \in ErrorMessages : handleServoError(t)

Spec == Init /\ [][Next]_vars

----------------------------------------------------------------------------
(* The sequencer's tick interval over the whole speed range: the playback
   after a setSpeed to any multiple of 0.05 in [0.5, 2.0] *)

\* speed multipliers setSpeed can leave in gaitSpeed, in steps of 0.05
SpeedGrid == {50 + 5 * k : k \in 0..30}
\* values of millis() - lastGaitUpdate, to the millisecond
ElapsedGrid == 0..201

\* the state after start-up and one setSpeed command
InitInterval ==
    /\ currentState = STOPPED
    /\ lastErrorMessage = ""
    /\ target = [j \in Joints |-> SERVO_HOME_POS]
    /\ current = [j \in Joints |-> SERVO_HOME_POS]
    /\ gaitPhase = 0
    /\ gaitProgress = 0
    /\ systemLoad = 0
    /\ errorCode = 0
    /\ errorMessage = ""
    /\ gaitCycleIndex = 0
    /\ gaitSpeed \in SpeedGrid
    /\ completedCycles = 0
    /\ lastProgress = -1
    /\ clients = 0
    /\ sent = <<Telemetry>>
    /\ written = << >>
    /\ lastOp = "setSpeed"
    /\ driveFault = FALSE
    /\ pendingGait = 0
    /\ nInputs = 1
    /\ nTicks = 0
    /\ cycles0 = 0
    /\ handler = Idle
    /\ sequencer = "idle"

NextInterval ==
    \/ handleWebSocketMessage(Plain("start"))
    \/ \E e \in GaitElapsed : updateGaitSimulation(e)
    \/ \E e \in ServoElapsed : updateServos(e, FALSE)

SpecInterval == InitInterval /\ [][NextInterval]_vars

----------------------------------------------------------------------------
(* The command handler one assignment at a time.  AsyncTCP runs
   onWebSocketEvent in its own task while loop() runs in the Arduino task,
   and the file has no lock: the steps of the loop may fall between two
   assignments of a setAngle or of a stop. *)

\* setAngle: currentData.<joint>.targetAngle = angle
setAngleTarget(m) ==
    /\ handler = Idle
    /\ nInputs < MaxInputs
    /\ nInputs' = nInputs + 1
    /\ m.frameOk /\ m.parseOk /\ m.command = "setAngle"
    /\ m.hasJoint /\ m.hasValue /\ m.joint \in Joints
    /\ LET angle == constrain(AsFloat(m), SERVO_MIN_ANGLE, SERVO_MAX_ANGLE)
       IN  /\ target' = [target EXCEPT ![m.joint] = angle]
           /\ handler' = [op |-> "setAngle", joint |-> m.joint,
                          angle |-> angle]
    /\ lastOp' = "handler"
    /\ sent' = << >>
    /\ written' = << >>
    /\ driveFault' = FALSE
    /\ UNCHANGED <<currentState, lastErrorMessage, current, gaitPhase,
                   gaitProgress, systemLoad, errorCode, errorMessage,
                   gaitCycleIndex, gaitSpeed, completedCycles, lastProgress,
                   clients, pendingGait, nTicks, cycles0,
                   sequencer>>

\* setAngle: currentData.<joint>.currentAngle = angle, then the broadcast
setAngleCurrent ==
    /\ handler.op = "setAngle"
    /\ current' = [current EXCEPT ![handler.joint] = handler.angle]
    /\ handler' = Idle
    /\ UNCHANGED <<currentState, lastErrorMessage, target, gaitPhase,
                   gaitProgress, systemLoad, errorCode, errorMessage,
                   gaitCycleIndex, gaitSpeed, completedCycles, lastProgress,
                   clients, pendingGait, nInputs, nTicks, cycles0,
                   sequencer>>
    /\ lastOp' = "setAngle"
    /\ sent' = <<Telemetry'>>
    /\ written' = << >>
    /\ driveFault' = FALSE

\* stop: currentState = STOPPED
stopState ==
    /\ handler = Idle
    /\ nInputs < MaxInputs
    /\ nInputs' = nInputs + 1
    /\ currentState' = STOPPED
    /\ handler' = [op |-> "stop", joint |-> "", angle |-> 0]
    /\ lastOp' = "handler"
    /\ sent' = << >>
    /\ written' = << >>
    /\ driveFault' = FALSE
    /\ UNCHANGED <<lastErrorMessage, target, current, gaitPhase,
                   gaitProgress, systemLoad, errorCode, errorMessage,
                   gaitCycleIndex, gaitSpeed, completedCycles, lastProgress,
                   clients, pendingGait, nTicks, cycles0,
                   sequencer>>

\* stop: gaitCycleIndex = 0; lastProgress = -1
stopCursor ==
    /\ handler.op = "stop"
    /\ gaitCycleIndex' = 0
    /\ lastProgress' = -1
    /\ nTicks' = 0
    /\ cycles0' = completedCycles
    /\ handler' = [op |-> "stopCursor", joint |-> "", angle |-> 0]
    /\ lastOp' = "handler"
    /\ sent' = << >>
    /\ written' = << >>
    /\ driveFault' = FALSE
    /\ UNCHANGED <<currentState, lastErrorMessage, target, current, gaitPhase,
                   gaitProgress, systemLoad, errorCode, errorMessage,
                   gaitSpeed, completedCycles, clients, pendingGait, nInputs,
                   sequencer>>

\* stop: returnToHomePosition(), then the broadcast
stopHome ==
    /\ handler.op = "stopCursor"
    /\ returnToHomePosition
    /\ handler' = Idle
    /\ UNCHANGED <<currentState, lastErrorMessage, gaitPhase, gaitProgress,
                   systemLoad, errorCode, errorMessage, gaitCycleIndex,
                   gaitSpeed, completedCycles, lastProgress, clients,
                   pendingGait, nInputs, nTicks, cycles0,
                   sequencer>>
    /\ lastOp' = "stop"
    /\ sent' = <<Telemetry'>>
    /\ written' = << >>
    /\ driveFault' = FALSE

NextRace ==
    \/ handler = Idle /\ handleWebSocketMessage(Plain("start"))
    \/ \E m \in Messages : setAngleTarget(m)
    \/ setAngleCurrent
    \/ stopState
    \/ stopCursor
    \/ stopHome
    \/ \E e \in GaitElapsed : updateGaitSimulation(e)
    \/ \E e \in ServoElapsed : updateServos(e, FALSE)
    \/ sendDataToClients

SpecRace == Init /\ [][NextRace]_vars

----------------------------------------------------------------------------
(* The sequencer tick in two steps.  updateGaitSimulation tests
   currentState and the millis() gate first and writes afterwards; a
   command the AsyncTCP task handles in between finds the tick begun and
   the tick, resumed, does not test the mode again. *)

\* updateGaitSimulation up to the gate: the mode is RUNNING and the interval
\* has passed
gaitCheck(elapsed) ==
    /\ sequencer = "idle"
    /\ currentState = RUNNING
    /\ elapsed >= UpdateInterval(gaitSpeed)
    /\ pendingGait < MaxLag
    /\ completedCycles < MaxCycles
    /\ sequencer' = "stepping"
    /\ lastOp' = "gaitCheck"
    /\ sent' = << >>
    /\ written' = << >>
    /\ driveFault' = FALSE
    /\ UNCHANGED <<progVars, clients, pendingGait, nInputs, nTicks, cycles0,
                   handler>>

\* updateGaitSimulation inside the gate: the body of the tick
gaitStep ==
    /\ sequencer = "stepping"
    /\ gaitProgress' = gaitCycleIndex
    /\ completedCycles' =
           IF lastProgress > 95 /\ gaitCycleIndex < 5
           THEN completedCycles + 1 ELSE completedCycles
    /\ lastProgress' = gaitCycleIndex
    /\ target' = [j \in Joints |-> Sample(j, gaitCycleIndex)]
    /\ gaitPhase' = PhaseOf(gaitCycleIndex)
    /\ gaitCycleIndex' =
           IF gaitCycleIndex + 1 >= GAIT_SAMPLES
           THEN 0 ELSE gaitCycleIndex + 1
    /\ pendingGait' = pendingGait + 1
    /\ nTicks' = nTicks + 1
    /\ sequencer' = "idle"
    /\ lastOp' = "updateGaitSimulation"
    /\ sent' = << >>
    /\ written' = << >>
    /\ driveFault' = FALSE
    /\ UNCHANGED <<currentState, lastErrorMessage, current, systemLoad,
                   errorCode, errorMessage, gaitSpeed, clients, nInputs,
                   cycles0, handler>>

\* loop() calls updateServos after updateGaitSimulation has returned; the
\* commands arrive at any time
NextTick ==
    \/ \E c \in {"start", "stop"} : handleWebSocketMessage(Plain(c))
    \/ \E e \in GaitElapsed : gaitCheck(e)
    \/ gaitStep
    \/ sequencer = "idle" /\ \E e \in ServoElapsed : updateServos(e, FALSE)

SpecTick == Init /\ [][NextTick]_vars

----------------------------------------------------------------------------
(* setSpeed one assignment at a time.  The branch stores the value of the
   frame in the global gaitSpeed and constrains the global afterwards;
   loop() may read it in between. *)

\* setSpeed: gaitSpeed = doc["value"]
setSpeedRaw(m) ==
    /\ handler = Idle
    /\ nInputs < MaxInputs
    /\ nInputs' = nInputs + 1
    /\ m.frameOk /\ m.parseOk /\ m.command = "setSpeed"
    /\ m.hasValue
    /\ gaitSpeed' = AsFloat(m)
    /\ handler' = [op |-> "setSpeed", joint |-> "", angle |-> 0]
    /\ lastOp' = "handler"
    /\ sent' = << >>
    /\ written' = << >>
    /\ driveFault' = FALSE
    /\ UNCHANGED <<currentState, lastErrorMessage, target, current, gaitPhase,
                   gaitProgress, systemLoad, errorCode, errorMessage,
                   gaitCycleIndex, completedCycles, lastProgress, clients,
                   pendingGait, nTicks, cycles0, sequencer>>

\* setSpeed: gaitSpeed = constrain(gaitSpeed, 0.5, 2.0), then the broadcast
setSpeedClamp ==
    /\ handler.op = "setSpeed"
    /\ gaitSpeed' = constrain(gaitSpeed, 50, 200)
    /\ handler' = Idle
    /\ UNCHANGED <<currentState, lastErrorMessage, target, current, gaitPhase,
                   gaitProgress, systemLoad, errorCode, errorMessage,
                   gaitCycleIndex, completedCycles, lastProgress, clients,
                   pendingGait, nInputs, nTicks, cycles0, sequencer>>
    /\ lastOp' = "setSpeed"
    /\ sent' = <<Telemetry'>>
    /\ written' = << >>
    /\ driveFault' = FALSE

\* updateGaitSimulation up to the gate when gaitSpeed is 0: 50 / gaitSpeed
\* is infinite and its conversion to int is undefined, so the interval is
\* any value constrain lets through and the gate may be open (a gate that
\* is shut changes nothing)
gaitCheckUndefined ==
    /\ sequencer = "idle"
    /\ currentState = RUNNING
    /\ gaitSpeed = 0
    /\ pendingGait < MaxLag
    /\ completedCycles < MaxCycles
    /\ sequencer' = "stepping"
    /\ lastOp' = "gaitCheck"
    /\ sent' = << >>
    /\ written' = << >>
    /\ driveFault' = FALSE
    /\ UNCHANGED <<progVars, clients, pendingGait, nInputs, nTicks, cycles0,
                   handler>>

NextSpeed ==
    \/ handler = Idle /\ handleWebSocketMessage(Plain("start"))
    \/ \E m \in Messages : setSpeedRaw(m)
    \/ setSpeedClamp
    \/ gaitSpeed # 0 /\ \E e \in GaitElapsed : gaitCheck(e)
    \/ gaitCheckUndefined
    \/ gaitStep
    \/ sequencer = "idle" /\ \E e \in ServoElapsed : updateServos(e, FALSE)
    \/ sequencer = "idle" /\ sendDataToClients

SpecSpeed == Init /\ [][NextSpeed]_vars

----------------------------------------------------------------------------
(* Playback left alone: the client starts it and changes the speed, and
   sends no stop and no pause; no fault is reported.  loop() calls
   updateGaitSimulation and updateServos on every pass and millis()
   advances, so each of the two gates opens again and again. *)

\* the frames of a client that starts the playback and sets its speed
LiveMessages ==
    {m \in Messages : /\ m.frameOk /\ m.parseOk
                      /\ \/ m.command = "start"
                         \/ m.command = "setSpeed" /\ m.hasValue /\ m.isNum}

gaitTick == \E e \in GaitElapsed : updateGaitSimulation(e)

servoTick == \E e \in ServoElapsed : updateServos(e, FALSE)

NextLive ==
    \/ \E m \in LiveMessages : handleWebSocketMessage(m)
    \/ gaitTick
    \/ servoTick

SpecLive ==
    Init /\ [][NextLive]_vars /\ WF_vars(gaitTick) /\ WF_vars(servoTick)

----------------------------------------------------------------------------
(* Playback interrupted by pause and resumed by start: the client sends
   no command but pause, while the playback runs, and start, while it
   does not. *)

NextResume ==
    \/ currentState # RUNNING /\ handleWebSocketMessage(Plain("start"))
    \/ currentState = RUNNING /\ handleWebSocketMessage(Plain("pause"))
    \/ \E e \in GaitElapsed : updateGaitSimulation(e)
    \/ \E e \in ServoElapsed : updateServos(e, FALSE)

SpecResume == Init /\ [][NextResume]_vars

----------------------------------------------------------------------------
(* Properties *)

\* a frame the handler accepts and dispatches as the command c
Accepted(m, c) == m.frameOk /\ m.parseOk /\ m.command = c

\* the setAngle frames that reach the assignments: joint and value present,
\* value a number, joint one of the four names
NumericSetAngle ==
    {m \in Messages : /\ Accepted(m, "setAngle")
                      /\ m.hasJoint /\ m.hasValue /\ m.isNum
                      /\ m.joint \in Joints}

\* the setSpeed frames with a numeric value
NumericSetSpeed ==
    {m \in Messages : Accepted(m, "setSpeed") /\ m.hasValue /\ m.isNum}

\* C1: in every reachable state the currentAngle of each of the four joints
\* lies in [SERVO_MIN_ANGLE, SERVO_MAX_ANGLE], whatever commands, argument
\* values and ticks came before.
C1_CurrentAngleInRange ==
    \A j \in Joints : 0 <= current[j] /\ current[j] <= 18000

\* an actuation tick has run after an out-of-range setAngle: 180 degrees is
\* above every sample of the table, so only a clamped 250 leaves it
C1_Witness ==
    /\ lastOp = "updateServos"
    /\ current["leftKnee"] = 18000
    /\ currentState = RUNNING

\* C2: setAngle(joint, v) on one of the four joints sets both targetAngle and
\* currentAngle of that joint to clamp(v, 0, 180) at once, in any mode, and
\* leaves the other three joints' target and current angles unchanged.
C2_SetAngleImmediate ==
    [][lastOp' = "setAngle" =>
         \A m \in NumericSetAngle :
           handleWebSocketMessage(m)
           => LET clamped == IF m.value < 0 THEN 0
                             ELSE IF m.value > 18000 THEN 18000 ELSE m.value
              IN  /\ target'[m.joint] = clamped
                  /\ current'[m.joint] = clamped
                  /\ \A k \in Joints \ {m.joint} :
                         target'[k] = target[k] /\ current'[k] = current[k]
      ]_vars

\* setAngle("leftHip", 250) has stored 180 while Paused, the other joints
\* still holding the sample the sequencer gave them
C2_Witness ==
    /\ lastOp = "setAngle"
    /\ currentState = PAUSED
    /\ target["leftHip"] = 18000 /\ current["leftHip"] = 18000
    /\ \A k \in Joints \ {"leftHip"} : target[k] = Sample(k, gaitProgress)

\* C3: after setSpeed(v) with a numeric v, speedMultiplier is clamp(v, 0.5,
\* 2.0); so speedMultiplier is in [0.5, 2.0] in every reachable state.
C3_SpeedClamped ==
    /\ [](50 <= gaitSpeed /\ gaitSpeed <= 200)
    /\ [][lastOp' = "setSpeed" =>
            \A m \in NumericSetSpeed :
              handleWebSocketMessage(m)
              => gaitSpeed' = IF m.value < 50 THEN 50
                              ELSE IF m.value > 200 THEN 200 ELSE m.value
         ]_vars

\* setSpeed(3.0) has been saturated to 2.0
C3_Witness == lastOp = "setSpeed" /\ gaitSpeed = 200

\* C4: a stop command, in whatever mode it is issued, leaves mode Stopped,
\* cursor index 0 and targetAngle = currentAngle = 90 for all four joints.
C4_StopResets ==
    lastOp = "stop" =>
        /\ currentState = STOPPED
        /\ gaitCycleIndex = 0
        /\ \A j \in Joints : target[j] = 9000 /\ current[j] = 9000

\* a stop has run in Fault mode after the sequencer had moved the joints
C4_Witness ==
    /\ lastOp = "stop"
    /\ errorCode = 1
    /\ gaitProgress > 0

\* C5: the gaitProgress a stop command publishes is 0.
C5_StopPublishesZeroProgress ==
    lastOp = "stop" => \A i \in 1..Len(sent) : sent[i].gaitProgress = 0

\* C6: outside Fault mode the error code is 0 and the error message empty.
C6_FaultInfoOnlyInFault ==
    currentState # ERROR_STATE => errorCode = 0 /\ errorMessage = ""

\* C7: in Fault mode start and pause change no state, and only a stop
\* command leaves Fault.
C7_FaultSticky ==
    [][currentState = ERROR_STATE =>
         /\ \A m \in Messages :
              ( /\ (Accepted(m, "start") \/ Accepted(m, "pause"))
                /\ handleWebSocketMessage(m) )
              => UNCHANGED progVars
         /\ currentState' # ERROR_STATE =>
              \E m \in Messages :
                  Accepted(m, "stop") /\ handleWebSocketMessage(m)
      ]_vars

\* a start has been received in Fault mode and the mode is still Fault
C7_Witness ==
    /\ lastOp = "start"
    /\ currentState = ERROR_STATE
    /\ gaitProgress > 0

\* C8: in Fault mode no command other than stop changes the mode, the
\* speedMultiplier or any joint's targetAngle or currentAngle.
C8_FaultExclusive ==
    [][\A m \in Messages :
         ( /\ currentState = ERROR_STATE
           /\ m.command # "stop"
           /\ handleWebSocketMessage(m) )
         => UNCHANGED <<currentState, gaitSpeed, target, current>>
      ]_vars

\* C9: after an Actuation Loop tick under which the hardware failed, the
\* mode is Fault and a non-zero error code and a message are recorded.
C9_DriveFaultEntersFault ==
    (lastOp = "updateServos" /\ driveFault) =>
        /\ currentState = ERROR_STATE
        /\ errorCode # 0
        /\ errorMessage # ""

\* C10: the mode becomes Fault only by a fault report; no client command,
\* malformed frame, sequencer tick or actuation tick enters Fault.
C10_OnlyFaultReportEntersFault ==
    [][(currentState # ERROR_STATE /\ currentState' = ERROR_STATE)
         => \E t \in ErrorMessages : handleServoError(t)]_vars

\* no fault was ever reported; the playback was started, stepped and paused
\* and an unknown command was received
C10_Witness ==
    /\ lastErrorMessage = "" /\ errorCode = 0
    /\ lastOp = "unknown"
    /\ currentState = PAUSED
    /\ gaitProgress > 0

\* C11: while the mode is Fault, that is from the fault report until the
\* next stop, every telemetry message emitted (periodic, on connect or in
\* answer to a command) carries state "error", a non-zero errorCode and
\* the recorded error text.
C11_FaultTelemetry ==
    currentState = ERROR_STATE =>
        \A i \in 1..Len(sent) :
            /\ sent[i].state = "error"
            /\ sent[i].errorCode # 0
            /\ sent[i].errorMessage = lastErrorMessage

\* a command was answered while the mode was Fault
C11_Witness ==
    /\ currentState = ERROR_STATE
    /\ lastOp = "getStatus"
    /\ Len(sent) = 1
    /\ sent[1].errorMessage = "Servo fault"

\* C12: a start command received in Stopped, Running or Paused sets the
\* mode to Running and changes nothing else: cursor index, last-observed
\* index, speed multiplier, cycle count, published progress and phase and
\* all joint angles keep their values, so a start while Running does not
\* restart the cycle.
C12_StartOnlySetsRunning ==
    [][( /\ lastOp' = "start"
         /\ currentState # ERROR_STATE
         /\ handleWebSocketMessage(Plain("start")) )
       => /\ currentState' = RUNNING
          /\ UNCHANGED <<gaitCycleIndex, lastProgress, gaitSpeed,
                         completedCycles, gaitProgress, gaitPhase,
                         target, current>>
      ]_vars

\* start arrived while the playback was Running in the middle of a cycle
C12_Witness ==
    /\ lastOp = "start"
    /\ currentState = RUNNING
    /\ gaitCycleIndex > 0
    /\ lastProgress = gaitCycleIndex - 1
    /\ nInputs = 2

\* C13: a pause command changes the mode only when the mode is Running, and
\* then to Paused; received in Stopped, Paused or Fault it leaves the mode
\* as it is; in every mode it leaves cursor, speed and all joint angles
\* unchanged. Paused is entered only from Running, by a pause command.
C13_PauseOnlyFromRunning ==
    [][/\ ( /\ lastOp' = "pause"
            /\ handleWebSocketMessage(Plain("pause")) )
          => /\ currentState' = IF currentState = RUNNING THEN PAUSED
                                ELSE currentState
             /\ UNCHANGED <<gaitCycleIndex, gaitSpeed, target, current>>
       /\ (currentState # PAUSED /\ currentState' = PAUSED)
          => (currentState = RUNNING /\ lastOp' = "pause")
      ]_vars

\* pause arrived in Fault, after the playback had stepped, and was ignored
C13_Witness ==
    /\ lastOp = "pause"
    /\ currentState = ERROR_STATE
    /\ gaitCycleIndex > 0
    /\ nInputs = 3

\* C14: the Gait Sequencer has effect only while the mode is Running: called
\* in Stopped, Paused or Fault it leaves cursor index, last-observed index,
\* completed-cycle count, published gaitProgress and gaitPhase and all four
\* targetAngles unchanged, whatever time has elapsed.
C14_SequencerOnlyWhenRunning ==
    [][( /\ currentState # RUNNING
         /\ lastOp' \in {"updateGaitSimulationIdle", "updateGaitSimulation"} )
       => \A e \in GaitElapsed :
              updateGaitSimulation(e)
              => UNCHANGED <<gaitCycleIndex, lastProgress, completedCycles,
                             gaitProgress, gaitPhase, target>>
      ]_vars

\* the sequencer was called while the playback was Paused in mid-cycle
C14_Witness ==
    /\ lastOp = "updateGaitSimulationIdle"
    /\ currentState = PAUSED
    /\ gaitCycleIndex > 0
    /\ gaitProgress = gaitCycleIndex - 1

\* C15 as stated: starting from index 0, after exactly 100 sequencer ticks
\* the index is back at 0 and the completed-cycle count has increased by
\* exactly 1.
C15_CountedAfter100Ticks ==
    nTicks = 100 =>
        /\ gaitCycleIndex = 0
        /\ completedCycles = cycles0 + 1

\* C15, amended: starting from index 0 after start-up or a stop, after
\* exactly 100 sequencer ticks the index is back at 0 and the completed-
\* cycle count is still unchanged; the 101st tick, the first one to see the
\* wrap, increases it by exactly 1.
C15_CountedAfter101Ticks ==
    /\ nTicks = 100 =>
           /\ gaitCycleIndex = 0
           /\ completedCycles = cycles0
    /\ nTicks = 101 =>
           /\ gaitCycleIndex = 1
           /\ completedCycles = cycles0 + 1

\* the playback has just made its 101st tick and counted its first cycle
C15_Witness ==
    /\ nTicks = 101
    /\ lastOp = "updateGaitSimulation"
    /\ completedCycles = 1
    /\ cycles0 = 0

\* C16 as stated: from the initial state, after start and exactly 50
\* sequencer ticks with no other input, a telemetry message carries
\* gaitProgress 50 and gaitPhase 2.
C16_ProgressFiftyAfter50Ticks ==
    (nTicks = 50 /\ nInputs = 1 /\ gaitSpeed = 100) =>
        /\ Telemetry.gaitProgress = 50
        /\ Telemetry.gaitPhase = 2

\* C16, amended: from the initial state, after start and exactly 50
\* sequencer ticks at speed 1.0 with no other input, a telemetry message
\* carries gaitProgress 49, the index the 50th tick looked up (the cursor
\* itself is at 50), and gaitPhase 2.
C16_ProgressAfter50Ticks ==
    (nTicks = 50 /\ nInputs = 1 /\ gaitSpeed = 100) =>
        /\ Telemetry.gaitProgress = 49
        /\ Telemetry.gaitPhase = 2
        /\ gaitCycleIndex = 50
        /\ \A i \in 1..Len(sent) : sent[i].gaitProgress = 49

\* a periodic message was published after start and 50 ticks
C16_Witness ==
    /\ nTicks = 50 /\ nInputs = 1 /\ gaitSpeed = 100
    /\ lastOp = "sendDataToClients"
    /\ Len(sent) = 1
    /\ sent[1].state = "running"
    /\ sent[1].gaitPhase = 2

\* C17: on every effective sequencer tick the published phase equals
\* floor(i*5/100) for the index i the tick looked up; it lies in 0..4; over
\* the consecutive ticks of one cycle it does not decrease; and it is 0 on
\* the tick that looks up index 0, the first one after the wrap.
C17_PhaseOfIndex ==
    [][( /\ lastOp' = "updateGaitSimulation"
         /\ gaitCycleIndex' # gaitCycleIndex
         /\ \E e \in GaitElapsed : updateGaitSimulation(e) )
       => LET i == gaitCycleIndex
          IN  /\ gaitProgress' = i
              /\ gaitPhase' = (i * 5) \div 100
              /\ gaitPhase' \in 0..4
              /\ Telemetry'.gaitPhase = gaitPhase'
              /\ (i > 0 => gaitPhase' >= gaitPhase)
              /\ (i = 0 => gaitPhase' = 0)
      ]_vars

\* the tick after the wrap from 99 to 0: the phase went from 4 back to 0
C17_Witness ==
    /\ lastOp = "updateGaitSimulation"
    /\ lastProgress = 0
    /\ completedCycles = 1
    /\ gaitPhase = 0
    /\ nTicks = 101

\* C18: the sequencer's tick interval equals clamp(trunc(50 / speed), 20,
\* 200): a tick fires exactly when that much time has elapsed.  For every
\* speed in [0.5, 2.0] the interval lies in [25, 100] and no higher speed
\* has a longer interval; at speed 2.0 it is 25, half of the 50 at 1.0.
C18_TickInterval ==
    /\ [](gaitSpeed \in 50..200 =>
            LET interval == UpdateInterval(gaitSpeed)
            IN  /\ interval \in 25..100
                /\ \A s \in SpeedGrid :
                       s >= gaitSpeed => UpdateInterval(s) <= interval
                /\ gaitSpeed = 100 => interval = 50
                /\ gaitSpeed = 200 =>
                       interval = 25 /\ 2 * interval = UpdateInterval(100))
    /\ [][( /\ lastOp' = "updateGaitSimulation"
            /\ gaitCycleIndex' # gaitCycleIndex )
          => LET q == 5000 \div gaitSpeed
                 expected == IF q < 20 THEN 20 ELSE IF q > 200 THEN 200 ELSE q
             IN  \A e \in ElapsedGrid :
                     updateGaitSimulation(e) <=> e >= expected
         ]_vars

\* a tick fired at speed 0.75, where 50 / 0.75 = 66.67 is truncated to 66
C18_Witness ==
    /\ gaitSpeed = 75
    /\ lastOp = "updateGaitSimulation"
    /\ currentState = RUNNING
    /\ UpdateInterval(gaitSpeed) = 66
    /\ nTicks = 1

\* C19 as stated: when a setAngle received while Running is followed by an
\* Actuation Loop tick, with no sequencer tick between them, every joint's
\* currentAngle after that tick is the trajectory value of the index last
\* looked up.
C19_ActuationOverwritesManual ==
    [][( /\ lastOp = "setAngle"
         /\ currentState = RUNNING
         /\ lastProgress >= 0
         /\ lastOp' = "updateServos" )
       => \A j \in Joints : current'[j] = Sample(j, lastProgress)
      ]_vars

\* C19, amended: a setAngle received while Running is overwritten by the
\* Gait Sequencer, not by the Actuation Loop.  An Actuation Loop tick that
\* follows the setAngle with no sequencer tick between them copies
\* targetAngle, which setAngle has set to the manual value, so the joint
\* stays there; the next sequencer tick sets every targetAngle to the
\* trajectory value, and the Actuation Loop tick after it makes that the
\* currentAngle.
C19_SequencerOverwritesManual ==
    [][/\ ( /\ lastOp = "setAngle"
            /\ currentState = RUNNING
            /\ lastOp' = "updateServos" )
          => \A j \in Joints :
                 /\ target'[j] = target[j]
                 /\ current'[j] = target[j]
                 /\ (target[j] = current[j] => current'[j] = current[j])
       /\ ( /\ lastOp' = "updateGaitSimulation"
            /\ gaitCycleIndex' # gaitCycleIndex )
          => \A j \in Joints : target'[j] = Sample(j, gaitCycleIndex)
       /\ ( /\ lastOp = "updateGaitSimulation"
            /\ lastOp' = "updateServos" )
          => \A j \in Joints : current'[j] = Sample(j, lastProgress)
      ]_vars

\* the playback has stepped, a setAngle put the left hip at 180 degrees
\* and the next Actuation Loop tick has left it there
C19_Witness ==
    /\ lastOp = "updateServos"
    /\ currentState = RUNNING
    /\ lastProgress >= 0
    /\ nInputs = 2
    /\ target["leftHip"] = 18000
    /\ current["leftHip"] = 18000
    /\ written[1]["leftHip"] = 180

\* C20: a setAngle received while Paused persists.  It leaves the mode
\* Paused with the joint's targetAngle and currentAngle both at the clamped
\* value, and no sequencer call, Actuation Loop tick or telemetry publish
\* made while the mode is Paused changes the mode, any targetAngle, or the
\* currentAngle of a joint whose currentAngle equals its targetAngle; a
\* setAngle on another joint leaves the joint alone as well.
C20_ManualPersistsWhilePaused ==
    [][currentState = PAUSED =>
         /\ lastOp' = "setAngle" =>
                \A m \in Messages :
                    ( /\ Accepted(m, "setAngle")
                      /\ m.hasJoint /\ m.hasValue /\ m.joint \in Joints
                      /\ handleWebSocketMessage(m) )
                    => /\ currentState' = PAUSED
                       /\ target'[m.joint] =
                              IF ~m.isNum \/ m.value < 0 THEN 0
                              ELSE IF m.value > 18000 THEN 18000 ELSE m.value
                       /\ current'[m.joint] = target'[m.joint]
                       /\ \A j \in Joints \ {m.joint} :
                              /\ target'[j] = target[j]
                              /\ current'[j] = current[j]
         /\ ( /\ lastOp' \in {"updateGaitSimulationIdle",
                              "updateGaitSimulation",
                              "updateServos", "sendDataToClients"}
              /\ \/ \E e \in GaitElapsed : updateGaitSimulation(e)
                 \/ \E e \in ServoElapsed, f \in BOOLEAN : updateServos(e, f)
                 \/ sendDataToClients )
            => /\ currentState' = PAUSED
               /\ target' = target
               /\ \A j \in Joints :
                      target[j] = current[j] => current'[j] = current[j]
      ]_vars

\* the left hip was set to 180 degrees while Paused in mid-cycle and an
\* Actuation Loop tick has written it out again
C20_Witness ==
    /\ currentState = PAUSED
    /\ lastOp = "updateServos"
    /\ gaitCycleIndex > 0
    /\ target["leftHip"] = 18000
    /\ current["leftHip"] = 18000
    /\ written[1]["leftHip"] = 180

\* C21: pause freezes the cursor and holds the current angles: while the
\* mode stays Paused and no setAngle arrives, no step changes the cursor
\* index or any joint's currentAngle, also when the pause arrived after a
\* sequencer tick and before the Actuation Loop tick that follows it.
C21_PauseHoldsAngles ==
    [][( /\ currentState = PAUSED
         /\ currentState' = PAUSED
         /\ lastOp' # "setAngle" )
       => /\ gaitCycleIndex' = gaitCycleIndex
          /\ current' = current
      ]_vars

\* a recognized command without a field it requires
MissingFields(m) ==
    \/ m.command = "setSpeed" /\ ~m.hasValue
    \/ m.command = "setAngle" /\ (~m.hasJoint \/ ~m.hasValue)

\* a whole text frame that does not parse, names no known command, or
\* lacks a required field
Malformed(m) ==
    /\ m.frameOk
    /\ \/ ~m.parseOk
       \/ m.command \notin Commands
       \/ MissingFields(m)

\* a setAngle with both fields whose joint is none of the four names
BadJoint(m) ==
    /\ m.frameOk /\ m.parseOk
    /\ m.command = "setAngle" /\ m.hasJoint /\ m.hasValue
    /\ m.joint \notin Joints

\* the frames of Messages the handler is to ignore
IgnoredMessages == {m \in Messages : Malformed(m) \/ BadJoint(m)}

\* what the handler leaves in lastOp for a frame
OpOf(m) ==
    IF ~m.frameOk \/ ~m.parseOk THEN "dropped"
    ELSE IF m.command \in Commands THEN m.command ELSE "unknown"

\* C22: a message with an unknown command name, a setSpeed without value, a
\* setAngle without joint or value, a setAngle naming no valid joint, or a
\* payload that does not parse leaves mode, cursor index, speed, cycle
\* count, fault information and all target and current angles unchanged.
\* (written as: a step that changes one of them handles no such message)
C22_MalformedChangesNothing ==
    [][\/ lastOp' \notin {"dropped", "unknown", "setSpeed", "setAngle"}
       \/ UNCHANGED <<currentState, gaitCycleIndex, gaitSpeed,
                      completedCycles, lastProgress, errorCode,
                      errorMessage, lastErrorMessage, target, current>>
       \/ \A m \in IgnoredMessages :
             ~ ( /\ lastOp' = OpOf(m)
                 /\ handleWebSocketMessage(m) )
      ]_vars

\* an unknown command arrived while the playback ran at speed 2.0 in
\* mid-cycle
C22_Witness ==
    /\ lastOp = "unknown"
    /\ currentState = RUNNING
    /\ gaitSpeed = 200
    /\ gaitCycleIndex > 0

\* the frames of Messages that are malformed
MalformedMessages == {m \in Messages : Malformed(m)}

\* C23: a malformed message (a payload that does not parse, an unknown
\* command name, or a recognized command without a required field) is not
\* acknowledged: the handler sends no telemetry message in answer to it.
C23_MalformedNotAcknowledged ==
    [][\A m \in MalformedMessages :
         ( /\ lastOp' = OpOf(m)
           /\ handleWebSocketMessage(m) )
         => sent' = << >>
      ]_vars

\* the setSpeed and setAngle frames whose value field is present and is not
\* a number
NonNumericMessages ==
    {m \in Messages : /\ m.frameOk /\ m.parseOk
                      /\ m.command \in {"setSpeed", "setAngle"}
                      /\ ~MissingFields(m)
                      /\ ~m.isNum}

\* C24: a setSpeed or setAngle whose value field is present but is not a
\* number is ignored: the speed and every joint's targetAngle and
\* currentAngle are the same after the message as before it.
C24_NonNumericIgnored ==
    [][\A m \in NonNumericMessages :
         ( /\ lastOp' = OpOf(m)
           /\ handleWebSocketMessage(m) )
         => UNCHANGED <<gaitSpeed, target, current>>
      ]_vars

\* C25: no telemetry snapshot and no actuation copy observes a partially
\* applied command.  A periodic snapshot taken while the handler is inside a
\* setAngle does not show the joint's targetAngle differing from its
\* currentAngle; a snapshot taken while the handler is inside a stop, with
\* the mode already Stopped, shows the cursor reset and the home posture;
\* and an Actuation Loop tick that falls inside a stop writes the home
\* posture to the servos.
C25_NoPartialCommandObserved ==
    /\ (lastOp = "sendDataToClients" /\ handler.op = "setAngle") =>
           sent[1].target[handler.joint] = sent[1].angle[handler.joint]
    /\ (lastOp = "sendDataToClients" /\ handler.op \in {"stop", "stopCursor"}) =>
           /\ sent[1].state = "stopped"
           /\ gaitCycleIndex = 0 /\ lastProgress = -1
           /\ \A j \in Joints :
                  /\ sent[1].angle[j] = Fmt1(SERVO_HOME_POS)
                  /\ sent[1].target[j] = Fmt1(SERVO_HOME_POS)
    /\ (lastOp = "updateServos" /\ handler.op \in {"stop", "stopCursor"}) =>
           \A j \in Joints : written[1][j] = ToInt(SERVO_HOME_POS)

\* C26: getStatus publishes one telemetry message at once and changes no
\* control state: mode, cursor index, speed, cycle count, fault information
\* and all target and current angles are the same before and after it; only
\* the load estimate may be refreshed.
C26_GetStatusOnlyPublishes ==
    [][( /\ lastOp' = "getStatus"
         /\ handleWebSocketMessage(Plain("getStatus")) )
       => /\ Len(sent') = 1
          /\ sent'[1] = Telemetry'
          /\ UNCHANGED <<currentState, gaitCycleIndex, lastProgress, gaitSpeed,
                         completedCycles, gaitProgress, gaitPhase, errorCode,
                         errorMessage, lastErrorMessage, target, current>>
      ]_vars

\* getStatus was answered while the playback ran at speed 2.0; the load
\* estimate it refreshed is 2.0 * 25 + 30 = 80
C26_Witness ==
    /\ lastOp = "getStatus"
    /\ currentState = RUNNING
    /\ gaitSpeed = 200
    /\ systemLoad = 8000
    /\ Len(sent) = 1
    /\ sent[1].systemLoad = 800

\* C27: a client connect event emits, in the same step and whatever the
\* periodic cadence, one telemetry snapshot that shows the shared state as
\* it is at connect time, and the connect changes none of that state.
C27_SnapshotOnConnect ==
    [][( /\ lastOp' = "connect"
         /\ onConnect )
       => /\ UNCHANGED progVars
          /\ Len(sent') = 1
          /\ sent'[1] = [Telemetry EXCEPT !.clientCount = clients + 1]
      ]_vars

\* a client connected while the playback ran in mid-cycle and got the
\* running state with the progress of that moment
C27_Witness ==
    /\ lastOp = "connect"
    /\ currentState = RUNNING
    /\ gaitProgress > 0
    /\ Len(sent) = 1
    /\ sent[1].state = "running"
    /\ sent[1].gaitProgress = gaitProgress
    /\ sent[1].clientCount = 1

C29_OnlyActuationWritesCurrent ==
    [][current' # current => lastOp' = "updateServos"]_vars

\* C29, amended: the Actuation Loop tick, setAngle and stop are the only
\* operations that write a joint's currentAngle; no sequencer tick and no
\* other client command changes a currentAngle.
C29_WritersOfCurrent ==
    [][current' # current =>
         lastOp' \in {"updateServos", "setAngle", "stop"}]_vars

\* a stop after some playback has put the joints back from the trajectory
\* to the home posture
C29_Witness ==
    /\ lastOp = "stop"
    /\ nInputs = 2
    /\ gaitProgress > 0
    /\ written = << >>
    /\ \A j \in Joints : current[j] = SERVO_HOME_POS

\* C30: in the initial state, before any command or tick, the mode is
\* Stopped, the cursor and the cycle count are 0, the speed multiplier is
\* 1.0, no fault is recorded (code 0, empty messages) and every joint has
\* targetAngle = currentAngle = home posture (90).
C30_InitialState ==
    lastOp = "init" =>
        /\ currentState = STOPPED
        /\ gaitCycleIndex = 0
        /\ completedCycles = 0
        /\ gaitSpeed = 100
        /\ errorCode = 0
        /\ errorMessage = ""
        /\ lastErrorMessage = ""
        /\ \A j \in Joints : /\ target[j] = SERVO_HOME_POS
                             /\ current[j] = SERVO_HOME_POS

\* the state after setup(): nothing received, nothing played, nothing sent
C30_Witness ==
    /\ lastOp = "init"
    /\ nInputs = 0
    /\ nTicks = 0
    /\ clients = 0
    /\ sent = << >>
    /\ written = << >>
    /\ Telemetry.state = "stopped"
    /\ Telemetry.angle["leftHip"] = Fmt1(SERVO_HOME_POS)

\* C31: an effective sequencer tick at cursor index i gives the four joints
\* the i-th entry of their own trajectory tables (the same i for all four,
\* no interpolation) and then sets the index to (i + 1) mod 100; the index
\* is in 0..99 in every reachable state, so every table lookup is in bounds.
C31_TickOutputsSample ==
    /\ [](gaitCycleIndex \in 0..(GAIT_SAMPLES - 1))
    /\ [][lastOp' = "updateGaitSimulation" /\ nTicks' # nTicks =>
            /\ currentState = RUNNING
            /\ target'["leftHip"] = hipLeft[gaitCycleIndex + 1]
            /\ target'["leftKnee"] = kneeLeft[gaitCycleIndex + 1]
            /\ target'["rightHip"] = hipRight[gaitCycleIndex + 1]
            /\ target'["rightKnee"] = kneeRight[gaitCycleIndex + 1]
            /\ gaitCycleIndex' = (gaitCycleIndex + 1) % GAIT_SAMPLES
         ]_vars

\* the tick at index 99 has put out the last samples of the tables and
\* wrapped the index to 0
C31_Witness ==
    /\ lastOp = "updateGaitSimulation"
    /\ lastProgress = 99
    /\ gaitCycleIndex = 0
    /\ target["leftHip"] = hipLeft[100]
    /\ target["rightKnee"] = kneeRight[100]

\* C32 as stated: after an effective Actuation Loop tick, in every mode,
\* each joint's currentAngle is clamp(targetAngle, 0, 180), the angle handed
\* to the driver is that currentAngle, and targetAngle is unchanged.
C32_DriverGetsCurrentAngle ==
    [][lastOp' = "updateServos" /\ written' # << >> =>
         /\ target' = target
         /\ \A j \in Joints :
              /\ current'[j] = IF target[j] < 0 THEN 0
                               ELSE IF target[j] > 18000 THEN 18000
                               ELSE target[j]
              /\ 100 * written'[1][j] = current'[j]
      ]_vars

\* C32, amended: after an effective Actuation Loop tick, in every mode, each
\* joint's currentAngle is clamp(targetAngle, 0, 180) of the value last
\* written to targetAngle, the angle handed to the driver is that
\* currentAngle truncated to whole degrees, and targetAngle is unchanged.
C32_DriverGetsWholeDegrees ==
    [][lastOp' = "updateServos" /\ written' # << >> =>
         /\ target' = target
         /\ \A j \in Joints :
              /\ current'[j] = IF target[j] < 0 THEN 0
                               ELSE IF target[j] > 18000 THEN 18000
                               ELSE target[j]
              /\ 100 * written'[1][j] <= current'[j]
              /\ current'[j] < 100 * written'[1][j] + 100
      ]_vars

\* an actuation tick while Paused has copied a sample with a fractional
\* part of more than half a degree and handed whole degrees to the driver
C32_Witness ==
    /\ lastOp = "updateServos"
    /\ currentState = PAUSED
    /\ Len(written) = 1
    /\ current = target
    /\ current["leftHip"] % 100 > 50
    /\ written[1]["leftHip"] = current["leftHip"] \div 100

\* C33: pause followed by start, with no other command between them, is a
\* round trip on the cursor: the mode is Running again, and the index, the
\* last-observed index, the speed and the cycle count are those of before
\* the pause, so the next tick puts out the sample at the frozen index.
\* When the client sends only pause and start, the cursor is therefore a
\* function of the number of effective ticks alone, however many round
\* trips lie between them.
C33_PauseStartRoundTrip ==
    /\ [](/\ gaitCycleIndex = nTicks % GAIT_SAMPLES
          /\ lastProgress = IF nTicks = 0 THEN -1
                            ELSE (nTicks - 1) % GAIT_SAMPLES
          /\ completedCycles = IF nTicks = 0 THEN 0
                               ELSE (nTicks - 1) \div GAIT_SAMPLES
          /\ gaitSpeed = 100)
    /\ [][/\ lastOp' \in {"pause", "start"} =>
               UNCHANGED <<gaitCycleIndex, lastProgress, gaitSpeed,
                           completedCycles>>
          /\ currentState = PAUSED =>
               /\ UNCHANGED <<gaitCycleIndex, lastProgress, gaitSpeed,
                              completedCycles>>
               /\ lastOp' = "start" => currentState' = RUNNING
          /\ (lastOp' = "updateGaitSimulation" /\ nTicks' # nTicks) =>
               \A j \in Joints : target'[j] = Sample(j, nTicks % GAIT_SAMPLES)
         ]_vars

\* after start, pause and start again (the three frames received), the
\* playback runs and its 41st tick has put out sample 40
C33_Witness ==
    /\ nInputs = 3
    /\ currentState = RUNNING
    /\ nTicks = 41
    /\ lastOp = "updateGaitSimulation"
    /\ gaitProgress = 40
    /\ gaitCycleIndex = 41
    /\ target["leftHip"] = hipLeft[41]

\* C34: the cycle count rises by at most 1 per step and only on a sequencer
\* tick; a wrap of the index from 99 to 0 (which leaves the last-observed
\* index 99 and the index 0) is counted by the next effective tick, exactly
\* once, since that tick moves the last-observed index to 0; no step but a
\* stop or that tick (so neither setSpeed nor pause nor start) takes the
\* pending wrap away, and none counts it.
C34_WrapCountedOnce ==
    /\ []((lastProgress > 95 /\ gaitCycleIndex < 5)
            => (lastProgress = 99 /\ gaitCycleIndex = 0))
    /\ [][/\ completedCycles' \in {completedCycles, completedCycles + 1}
          /\ completedCycles' # completedCycles =>
               /\ lastOp' = "updateGaitSimulation"
               /\ lastProgress = 99 /\ gaitCycleIndex = 0
               /\ lastProgress' = 0 /\ gaitCycleIndex' = 1
          /\ (lastProgress = 99 /\ lastProgress' # 99) =>
               \/ lastOp' = "stop"
               \/ /\ lastOp' = "updateGaitSimulation"
                  /\ completedCycles' = completedCycles + 1
          /\ (lastProgress # 99 /\ lastProgress' = 99) =>
               /\ lastOp' = "updateGaitSimulation"
               /\ gaitCycleIndex = 99 /\ gaitCycleIndex' = 0
         ]_vars

\* the wrap was counted by tick 101 at a speed other than the initial one,
\* three frames having been received
C34_Witness ==
    /\ lastOp = "updateGaitSimulation"
    /\ completedCycles = 1
    /\ nTicks = 101
    /\ lastProgress = 0
    /\ gaitSpeed = 200
    /\ nInputs = 3

\* C35: a stop handled while a sequencer tick is in progress (the tick
\* having passed its test of the mode) still leaves the post-stop state once
\* both are over: whenever the mode is Stopped, no tick is in progress and
\* no setAngle came since the last stop, the index is 0 and every
\* targetAngle is the home posture, and an actuation tick in that state
\* hands the home posture to the driver.
C35_StopWinsOverTick ==
    (currentState = STOPPED /\ sequencer = "idle") =>
        /\ gaitCycleIndex = 0
        /\ \A j \in Joints : target[j] = SERVO_HOME_POS
        /\ lastOp = "updateServos" =>
               \A j \in Joints : written[1][j] = ToInt(SERVO_HOME_POS)

\* C36: loop() never reads a speed outside [0.5, 2.0], even while a
\* setSpeed is in progress: the speed the sequencer has computed its
\* interval from is in the range, and so is the speed of every periodic
\* telemetry message.
C36_NoUnclampedSpeedRead ==
    /\ lastOp = "gaitCheck" => (50 <= gaitSpeed /\ gaitSpeed <= 200)
    /\ lastOp = "sendDataToClients" =>
           (5 <= sent[1].speed /\ sent[1].speed <= 20)

\* C37: the cycle count never decreases under any operation, and a stop
\* leaves the cycle count and the speed as they were: it resets only the
\* mode, the index, the last-observed index and the joint angles.
C37_StopKeepsCountAndSpeed ==
    [][/\ completedCycles' >= completedCycles
       /\ (lastOp' = "stop" /\ handleWebSocketMessage(Plain("stop"))) =>
            UNCHANGED <<completedCycles, gaitSpeed, gaitProgress, gaitPhase,
                        systemLoad, errorCode, errorMessage,
                        lastErrorMessage>>
      ]_vars

\* a stop after a completed cycle played at speed 2.0 has left both
C37_Witness ==
    /\ lastOp = "stop"
    /\ currentState = STOPPED
    /\ gaitCycleIndex = 0
    /\ completedCycles = 1
    /\ gaitSpeed = 200

====
